---- MODULE Spec2Model ----
(***************************************************************************)
(* Model of homework.py: a bot that polls the homework-review API and      *)
(* relays status changes to a Telegram chat.                               *)
(*                                                                         *)
(* Python values are records with a "type" field; a dict is a function     *)
(* whose DOMAIN is the set of its keys.  A Python string built by an       *)
(* f-string is the sequence of its parts (literal pieces and substituted   *)
(* values), '' being the empty sequence.  The Russian literals of the      *)
(* source are transliterated to ASCII.                                     *)
(***************************************************************************)
EXTENDS Integers, Sequences, FiniteSets, TLC

VARIABLES pc, env, critical, exception, timestamp, last_error_message,
          error, cycle, prev_cycle

vars == <<pc, env, critical, exception, timestamp, last_error_message,
          error, cycle, prev_cycle>>

----------------------------------------------------------------------------
(* Bounds of the explored inputs *)

\* longest 'homeworks' list the API returns
MaxHomeworks == 2
\* number of distinct clock / current_date values
NumTimes == 2

----------------------------------------------------------------------------
(* Constants of homework.py *)

RETRY_PERIOD == 600

HTTPStatus_OK == 200

HOMEWORK_VERDICTS ==
    [approved  |-> "Rabota proverena: revyueru vsyo ponravilos. Ura!",
     reviewing |-> "Rabota vzyata na proverku revyuerom.",
     rejected  |-> "Rabota proverena: u revyuera est zamechaniya."]

\* the dict 'tokens' of check_tokens, in insertion order
TokenNames == <<"PRACTICUM_TOKEN", "TELEGRAM_TOKEN", "TELEGRAM_CHAT_ID">>

----------------------------------------------------------------------------
(* Python values *)

PyNone == [type |-> "NoneType"]
PyStr(parts) == [type |-> "str", value |-> parts]
PyInt(i) == [type |-> "int", value |-> i]
PyBool(b) == [type |-> "bool", value |-> b]
PyList(items) == [type |-> "list", items |-> items]
PyDict(d) == [type |-> "dict", value |-> d]

\* bool(v), as used by 'if v:' and 'not v'
Truthy(v) ==
    CASE v.type = "NoneType" -> FALSE
      [] v.type = "bool" -> v.value
      [] v.type = "list" -> Len(v.items) > 0
      [] v.type = "str" -> Len(v.value) > 0
      [] OTHER -> TRUE

\* d.get(key, default) on a dict
Get(d, key, default) == IF key \in DOMAIN d THEN d[key] ELSE default

\* f'{type(v)}'
TypeRepr(v) == <<"<class '", v.type, "'>">>

NoException == [exc |-> "None", args |-> <<>>]
Raise(exc, args) == [exc |-> exc, args |-> args]

\* str(error): KeyError shows the repr of its argument, the others the text
ErrorStr(e) ==
    IF e.exc = "KeyError" THEN <<"'">> \o e.args \o <<"'">> ELSE e.args

\* what a call gives back: an exception raised, or a value returned
Raised(e) == [raised |-> e, value |-> PyNone]
Returned(v) == [raised |-> NoException, value |-> v]

----------------------------------------------------------------------------
(* The environment: inputs of the program *)

\* os.getenv gives None for an unset variable, else its (maybe empty) text
EnvValues == {PyNone, PyStr(<< >>), PyStr(<<"secret">>)}

TokenNameSet == {TokenNames[i] : i \in 1..Len(TokenNames)}

Times == {500 * i : i \in 1..NumTimes}

HomeworkNames == {"hw1", "hw2"}
Statuses == {"approved", "reviewing", "rejected", "unknown"}

\* a homework record: a dict with optional homework_name and status
Records ==
    {<< >>}
    \cup {[homework_name |-> n] : n \in HomeworkNames}
    \cup {[status |-> s] : s \in Statuses}
    \cup {[homework_name |-> n, status |-> s] :
             n \in HomeworkNames, s \in Statuses}

\* the records after the first one
TailRecords ==
    {<< >>, [homework_name |-> "hw2", status |-> "unknown"],
     [homework_name |-> "hw2", status |-> "rejected"]}

RECURSIVE Tails(_)
Tails(n) ==
    IF n = 0 THEN {<< >>}
    ELSE Tails(n - 1) \cup
         {Append(t, r) : t \in {u \in Tails(n - 1) : Len(u) = n - 1},
                         r \in TailRecords}

HomeworkLists ==
    {<< >>} \cup {<<r>> \o t : r \in Records, t \in Tails(MaxHomeworks - 1)}

\* values the key 'homeworks' can hold
HomeworksValues ==
    {PyNone, PyStr(<<"abc">>), PyInt(7), PyDict(<< >>)}
    \cup {PyList(l) : l \in HomeworkLists}

\* the deserialized JSON bodies
JsonBodies ==
    {PyNone, PyStr(<<"abc">>), PyInt(7), PyList(<< >>)}
    \cup {PyDict(<< >>)}
    \cup {PyDict([current_date |-> t]) : t \in Times}
    \cup {PyDict([homeworks |-> h]) : h \in HomeworksValues}
    \cup {PyDict([homeworks |-> h, current_date |-> t]) :
             h \in HomeworksValues, t \in Times}

\* what requests.get does: a transport error, or a response
NetOutcomes ==
    {[kind |-> "RequestException", status_code |-> 0, json |-> PyNone]}
    \cup {[kind |-> "response", status_code |-> c, json |-> PyNone] :
             c \in {404, 500}}
    \cup {[kind |-> "response", status_code |-> HTTPStatus_OK, json |-> b] :
             b \in JsonBodies}

\* one API outcome of each kind: the failures of the request, and the
\* bodies with at most one record about "hw1"
SampledOutcomes ==
    {o \in NetOutcomes :
        (o.json.type = "dict" /\ "homeworks" \in DOMAIN o.json.value
           /\ o.json.value.homeworks.type = "list")
        => LET l == o.json.value.homeworks.items
           IN  /\ Len(l) <= 1
               /\ Len(l) = 1
                  => l[1] \in {<< >>, [homework_name |-> "hw1"],
                               [homework_name |-> "hw1", status |-> "unknown"],
                               [homework_name |-> "hw1", status |-> "approved"]}}

\* what bot.send_message does
BotOutcomes == {"ok", "ApiException", "RequestException"}

----------------------------------------------------------------------------
(* The functions of homework.py *)

RECURSIVE Join(_, _)
\* sep.join(names)
Join(sep, names) ==
    IF Len(names) = 0 THEN << >>
    ELSE IF Len(names) = 1 THEN names
    ELSE <<Head(names), sep>> \o Join(sep, Tail(names))

\* check_tokens testing 'token_value is None': an empty value passes
check_tokens_none_only(tokens) ==
    LET missing_tokens ==
            SelectSeq(TokenNames, LAMBDA name : tokens[name] = PyNone)
    IN  [raised |->
            IF Len(missing_tokens) > 0
            THEN Raise("TokenError",
                       <<"Otsutstvuyut peremennye okruzheniya: ">>
                       \o Join(", ", missing_tokens))
            ELSE NoException,
         critical |-> missing_tokens]

\* check_tokens that logs the missing names and forgets to raise
check_tokens_never_raises(tokens) ==
    [raised |-> NoException,
     critical |-> SelectSeq(TokenNames, LAMBDA name : ~Truthy(tokens[name]))]

\* lines 30-47
check_tokens(tokens) ==
    LET missing_tokens ==
            SelectSeq(TokenNames, LAMBDA name : ~Truthy(tokens[name]))
    IN  [raised |->
            IF Len(missing_tokens) > 0
            THEN Raise("TokenError",
                       <<"Otsutstvuyut peremennye okruzheniya: ">>
                       \o Join(", ", missing_tokens))
            ELSE NoException,
         critical |-> missing_tokens]

\* send_message with an except clause that misses requests.RequestException
send_message_propagates(msg, outcome) ==
    [raised |-> IF outcome = "RequestException"
                THEN Raise("RequestException", <<"transport error">>)
                ELSE NoException,
     value |-> PyNone,
     delivered |-> outcome = "ok"]

\* send_message ending with 'return True' after the try/except
send_message_returns_true(msg, outcome) ==
    [raised |-> NoException,
     value |-> PyBool(TRUE),
     delivered |-> outcome = "ok"]

\* send_message without its try/except
send_message_uncaught(msg, outcome) ==
    [raised |-> IF outcome = "ok" THEN NoException
                ELSE Raise(outcome, <<"delivery error">>),
     value |-> PyNone,
     delivered |-> outcome = "ok"]

\* lines 50-57; 'outcome' is what the client does with the message.  Both
\* exceptions are caught, and there is no return statement
send_message(msg, outcome) ==
    [raised |-> NoException,
     value |-> PyNone,
     delivered |-> outcome = "ok"]

\* lines 60-71; 'net' is what requests.get does with the request
get_api_answer(ts, net) ==
    LET params == [from_date |-> ts]
        result ==
            IF net.kind = "RequestException"
            THEN Raised(Raise("APIError",
                      <<"Oshibka pri zaprose k API: ", "RequestException">>))
            ELSE IF net.status_code # HTTPStatus_OK
            THEN Raised(Raise("APIError",
                      <<"Oshibka API: kod otveta ", ToString(net.status_code)>>))
            ELSE Returned(net.json)
    IN  [raised |-> result.raised, value |-> result.value, params |-> params]

\* lines 74-91
check_response(resp) ==
    IF resp.type # "dict"
    THEN Raised(Raise("TypeError",
                      <<"Otvet API imeet nekorrektnyj tip: ">> \o TypeRepr(resp)
                      \o <<", ozhidalsya slovar">>))
    ELSE LET hws == Get(resp.value, "homeworks", PyNone)
         IN  IF hws.type = "NoneType"
             THEN Raised(Raise("KeyError",
                      <<"Klyuch \"homeworks\" otsutstvuet v otvete API">>))
             ELSE IF hws.type # "list"
             THEN Raised(Raise("TypeError",
                      <<"Tip dannyh \"homeworks\" nekorrekten: ">>
                      \o TypeRepr(hws) \o <<", ozhidalsya spisok">>))
             ELSE Returned(hws)

\* parse_status formatting the status code instead of its verdict
parse_status_status_code(homework) ==
    IF "homework_name" \notin DOMAIN homework
    THEN Raised(Raise("KeyError",
             <<"Klyuch \"homework_name\" otsutstvuet v informacii o domashnej rabote">>))
    ELSE IF "status" \notin DOMAIN homework
    THEN Raised(Raise("KeyError",
             <<"Klyuch \"status\" otsutstvuet v informacii o domashnej rabote">>))
    ELSE IF homework.status \notin DOMAIN HOMEWORK_VERDICTS
    THEN Raised(Raise("ValueError",
             <<"Neizvestnyj status raboty: ", homework.status>>))
    ELSE Returned(PyStr(<<"Izmenilsya status proverki raboty \"",
                          homework.homework_name, "\". ",
                          homework.status>>))

\* parse_status testing the key 'status' before the key 'homework_name'
parse_status_status_first(homework) ==
    IF "status" \notin DOMAIN homework
    THEN Raised(Raise("KeyError",
             <<"Klyuch \"status\" otsutstvuet v informacii o domashnej rabote">>))
    ELSE IF "homework_name" \notin DOMAIN homework
    THEN Raised(Raise("KeyError",
             <<"Klyuch \"homework_name\" otsutstvuet v informacii o domashnej rabote">>))
    ELSE IF homework.status \notin DOMAIN HOMEWORK_VERDICTS
    THEN Raised(Raise("ValueError",
             <<"Neizvestnyj status raboty: ", homework.status>>))
    ELSE Returned(PyStr(<<"Izmenilsya status proverki raboty \"",
                          homework.homework_name, "\". ",
                          HOMEWORK_VERDICTS[homework.status]>>))

\* lines 94-107
parse_status(homework) ==
    IF "homework_name" \notin DOMAIN homework
    THEN Raised(Raise("KeyError",
             <<"Klyuch \"homework_name\" otsutstvuet v informacii o domashnej rabote">>))
    ELSE IF "status" \notin DOMAIN homework
    THEN Raised(Raise("KeyError",
             <<"Klyuch \"status\" otsutstvuet v informacii o domashnej rabote">>))
    ELSE IF homework.status \notin DOMAIN HOMEWORK_VERDICTS
    THEN Raised(Raise("ValueError",
             <<"Neizvestnyj status raboty: ", homework.status>>))
    ELSE Returned(PyStr(<<"Izmenilsya status proverki raboty \"",
                          homework.homework_name, "\". ",
                          HOMEWORK_VERDICTS[homework.status]>>))

----------------------------------------------------------------------------
(* main() *)

\* what one iteration of the loop did; response, homeworks and message are
\* the locals of the try block, the rest is what was observed
NoCycle ==
    [n_api |-> 0, from_date |-> 0, timestamp_before |-> 0,
     last_error_before |-> PyStr(<< >>),
     events |-> << >>,
     response |-> PyNone, homeworks |-> PyNone, message |-> PyStr(<< >>),
     raised_by |-> "None", error |-> NoException,
     has_current_date |-> FALSE, current_date |-> 0,
     status_send |-> "None", error_send |-> "None",
     error_message |-> PyStr(<< >>),
     repeats |-> FALSE, notified_before |-> PyStr(<< >>),
     sleeps |-> 0, slept |-> 0]

\* what is kept of an iteration once it is over; the error notified before
\* it is remembered across an iteration that delivered a status message
Summary(c) ==
    [c EXCEPT !.events = << >>, !.response = PyNone, !.homeworks = PyNone,
              !.message = PyStr(<< >>),
              !.notified_before =
                  IF c.status_send = "ok" THEN @ ELSE PyStr(<< >>)]

\* the iteration 'c' seen against the iteration before it: the error
\* message that iteration notified, '' if it delivered none
Remembered(c, before) ==
    [c EXCEPT !.notified_before =
                  IF before.error_send = "ok" THEN before.error_message
                  ELSE PyStr(<< >>)]

\* the cursor assigned whatever send_message returned, with 0 as default
advance_cursor_unconditional(sent, resp, ts) ==
    Get(resp.value, "current_date", 0)

\* the cursor taken from the response whatever send_message returned
advance_cursor_ignores_result(sent, resp, ts) ==
    Get(resp.value, "current_date", ts)

\* lines 123-124: the cursor after send_message returned 'sent'
advance_cursor(sent, resp, ts) ==
    IF Truthy(sent) THEN Get(resp.value, "current_date", ts) ELSE ts

\* homeworks[-1]
last_homework(hws) == hws.items[Len(hws.items)]

\* line 122: homeworks[0]
first_homework(hws) == hws.items[1]

\* an else branch that takes the cursor from the response
no_new_statuses_advances(ts, lem, resp, cyc) ==
    [raised |-> NoException,
     timestamp |-> Get(resp.value, "current_date", ts),
     last_error_message |-> lem,
     cycle |-> cyc]

\* lines 128-129: the else branch of 'if homeworks:', a debug log only
no_new_statuses(ts, lem, resp, cyc) ==
    [raised |-> NoException, timestamp |-> ts, last_error_message |-> lem,
     cycle |-> cyc]

\* lines 119-129: the try block, up to its end or to the first exception;
\* 'net' is what the API does, 'bot' what the messaging client does
try_block(ts, lem, net, bot) ==
    LET a == get_api_answer(ts, net)
        c == check_response(a.value)
        p == parse_status(first_homework(c.value))
        s == send_message(p.value, bot)
        called == [NoCycle EXCEPT !.n_api = 1,
                                  !.from_date = a.params.from_date,
                                  !.timestamp_before = ts,
                                  !.last_error_before = lem,
                                  !.events = <<"get_api_answer">>]
        answered == [called EXCEPT
                        !.response = a.value,
                        !.events = Append(@, "check_response")]
        checked == [answered EXCEPT !.homeworks = c.value]
        parsing == [checked EXCEPT !.events = Append(@, "parse_status")]
        sending == [parsing EXCEPT
                        !.message = p.value,
                        !.events = Append(@, "send_message"),
                        !.status_send = bot,
                        !.has_current_date =
                            "current_date" \in DOMAIN a.value.value,
                        !.current_date =
                            Get(a.value.value, "current_date", 0)]
        Fail(cyc, fn, e) ==
            [raised |-> e, timestamp |-> ts, last_error_message |-> lem,
             cycle |-> [cyc EXCEPT !.raised_by = fn, !.error = e]]
    IN  IF a.raised # NoException THEN Fail(called, "get_api_answer", a.raised)
        ELSE IF c.raised # NoException
        THEN Fail(answered, "check_response", c.raised)
        ELSE IF ~Truthy(c.value)
        THEN no_new_statuses(ts, lem, a.value, checked)
        ELSE IF p.raised # NoException
        THEN Fail(parsing, "parse_status", p.raised)
        ELSE IF s.raised # NoException
        THEN Fail(sending, "send_message", s.raised)
        ELSE [raised |-> NoException,
              timestamp |-> advance_cursor(s.value, a.value, ts),
              last_error_message |->
                  IF Truthy(s.value) THEN PyStr(<< >>) ELSE lem,
              cycle |-> sending]

\* an except block that ends with a bare 'raise'
except_block_reraises(err, lem, cyc, bot) ==
    [raised |-> err, last_error_message |-> lem,
     cycle |-> [cyc EXCEPT !.events = Append(@, "except")]]

\* an except block that caches the message without testing send_message
except_block_caches_always(err, lem, cyc, bot) ==
    LET msg == PyStr(<<"Sboj v rabote programmy: ">> \o ErrorStr(err))
        entered == [cyc EXCEPT !.events = Append(@, "except"),
                               !.error_message = msg]
    IN  IF msg # lem
        THEN [raised |-> NoException,
              last_error_message |-> msg,
              cycle |-> [entered EXCEPT
                            !.events = Append(@, "send_message"),
                            !.error_send = bot]]
        ELSE [raised |-> NoException, last_error_message |-> lem,
              cycle |-> entered]

\* lines 130-135: the except block for the exception 'err'
except_block(err, lem, cyc, bot) ==
    LET msg == PyStr(<<"Sboj v rabote programmy: ">> \o ErrorStr(err))
        s == send_message(msg, bot)
        entered == [cyc EXCEPT !.events = Append(@, "except"),
                               !.error_message = msg]
    IN  IF msg # lem
        THEN [raised |-> s.raised,
              last_error_message |->
                  IF s.raised = NoException /\ Truthy(s.value)
                  THEN msg ELSE lem,
              cycle |-> [entered EXCEPT
                            !.events = Append(@, "send_message"),
                            !.error_send = bot]]
        ELSE [raised |-> NoException, last_error_message |-> lem,
              cycle |-> entered]

Init ==
    /\ pc = "main"
    /\ env \in [TokenNameSet -> EnvValues]
    /\ critical = << >>
    /\ exception = NoException
    /\ timestamp = 0
    /\ last_error_message = PyStr(<< >>)
    /\ error = NoException
    /\ cycle = NoCycle
    /\ prev_cycle = NoCycle

\* lines 112-115
main_start ==
    /\ pc = "main"
    /\ LET r == check_tokens(env)
       IN  /\ critical' = r.critical
           /\ IF r.raised # NoException
              THEN /\ exception' = r.raised
                   /\ pc' = "terminated"
                   /\ UNCHANGED <<timestamp, last_error_message>>
              ELSE /\ \E now \in Times : timestamp' = now
                   /\ last_error_message' = PyStr(<< >>)
                   /\ pc' = "try"
                   /\ UNCHANGED exception
    /\ UNCHANGED <<env, error, cycle, prev_cycle>>

\* lines 118-129, the API answering with one of 'outcomes'
poll(outcomes) ==
    /\ pc = "try"
    /\ \E net \in outcomes, bot \in BotOutcomes :
          LET t == try_block(timestamp, last_error_message, net, bot)
          IN  /\ cycle' = Remembered(t.cycle, prev_cycle)
              /\ timestamp' = t.timestamp
              /\ last_error_message' = t.last_error_message
              /\ error' = t.raised
              /\ pc' = IF t.raised # NoException THEN "except" ELSE "finally"
    /\ UNCHANGED <<env, critical, exception, prev_cycle>>

\* lines 118-129
main_try == poll(NetOutcomes)

\* lines 118-129, on one API outcome of each kind
main_try_sampled == poll(SampledOutcomes)

\* the failed iteration 'c' seen against the iteration before it: whether
\* it repeats the error message of that iteration, whose messages were
\* delivered
Repeated(c, before) ==
    [c EXCEPT !.repeats = /\ before.raised_by # "None"
                          /\ before.error_message = c.error_message
                          /\ before.status_send \in {"None", "ok"}
                          /\ before.error_send \in {"None", "ok"}]

\* lines 130-135; an exception raised here leaves the loop after 'finally'
main_except ==
    /\ pc = "except"
    /\ \E bot \in BotOutcomes :
          LET x == except_block(error, last_error_message, cycle, bot)
          IN  /\ cycle' = Repeated(x.cycle, prev_cycle)
              /\ last_error_message' = x.last_error_message
              /\ exception' = x.raised
    /\ error' = NoException
    /\ pc' = "finally"
    /\ UNCHANGED <<env, critical, timestamp, prev_cycle>>

\* the sleep in an 'else' clause: skipped after an exception
main_finally_sleeps_on_success ==
    /\ pc = "finally"
    /\ prev_cycle' =
          Summary(IF cycle.raised_by # "None" THEN cycle
                  ELSE [cycle EXCEPT !.events = Append(@, "sleep"),
                                     !.sleeps = @ + 1,
                                     !.slept = @ + RETRY_PERIOD])
    /\ cycle' = NoCycle
    /\ pc' = IF exception # NoException THEN "terminated" ELSE "try"
    /\ UNCHANGED <<env, critical, exception, timestamp, last_error_message,
                   error>>

\* lines 136-137
main_finally ==
    /\ pc = "finally"
    /\ prev_cycle' = Summary([cycle EXCEPT !.events = Append(@, "sleep"),
                                           !.sleeps = @ + 1,
                                           !.slept = @ + RETRY_PERIOD])
    /\ cycle' = NoCycle
    /\ pc' = IF exception # NoException THEN "terminated" ELSE "try"
    /\ UNCHANGED <<env, critical, exception, timestamp, last_error_message,
                   error>>

Next ==
    \/ main_start
    \/ main_try
    \/ main_except
    \/ main_finally

Spec == Init /\ [][Next]_vars

NextSampled ==
    \/ main_start
    \/ main_try_sampled
    \/ main_except
    \/ main_finally

\* main() is sequential code: a statement that is reached is executed
FairSpec == Init /\ [][NextSampled]_vars /\ WF_vars(NextSampled)

----------------------------------------------------------------------------
(* Properties *)

Range(seq) == {seq[i] : i \in 1..Len(seq)}

\* the ways bot.send_message fails
DeliveryErrors == {"ApiException", "RequestException"}

\* the iteration ended in the except block
Failed(c) == c.raised_by # "None"

\* every message the iteration handed to the client was delivered
ClientWorked(c) ==
    c.status_send \notin DeliveryErrors /\ c.error_send \notin DeliveryErrors

\* C1: after an iteration whose status message was delivered and whose
\* response carried current_date = T, the next API call has from_date = T
C1_CursorAdvancement ==
    (/\ prev_cycle.status_send = "ok"
     /\ prev_cycle.has_current_date
     /\ cycle.n_api = 1)
    => cycle.from_date = prev_cycle.current_date

\* C2: with a working client, of two consecutive iterations failing with
\* the same error message only the first one notifies it, and of two
\* failing with distinct messages both notify
C2_ErrorDeduplication ==
    (/\ pc = "finally"
     /\ Failed(prev_cycle) /\ Failed(cycle)
     /\ ClientWorked(prev_cycle) /\ ClientWorked(cycle)
     /\ prev_cycle.last_error_before # prev_cycle.error_message)
    => /\ prev_cycle.error_send = "ok"
       /\ cycle.error_send =
             IF cycle.error_message = prev_cycle.error_message
             THEN "None" ELSE "ok"

\* C3: an iteration in which the delivery of the status message failed does
\* not enter the except block and attempts no error notification
C3_DeliveryErrorsStayLocal ==
    /\ \A c \in {cycle, prev_cycle} :
          c.status_send \in DeliveryErrors
          => /\ c.raised_by = "None"
             /\ c.error = NoException
             /\ c.error_send = "None"
             /\ c.error_message = PyStr(<< >>)
    /\ cycle.status_send \in DeliveryErrors
       => /\ pc = "finally"
          /\ "except" \notin Range(cycle.events)
          /\ exception = NoException

C3_Witness ==
    /\ prev_cycle.status_send = "RequestException"
    /\ prev_cycle.sleeps = 1
    /\ pc = "try"

\* C4: the loop survives every failing iteration: main() ends only by the
\* TokenError of check_tokens, after a failed iteration control is back at
\* the call of get_api_answer, and the call is made
C4_LoopNeverStops ==
    /\ [](pc = "terminated" => exception.exc = "TokenError" /\ cycle = NoCycle)
    /\ (pc = "finally" /\ (Failed(cycle) \/ ~ClientWorked(cycle)))
          ~> (pc = "try")
    /\ (pc = "try") ~> (cycle.n_api = 1 /\ cycle.events[1] = "get_api_answer")

C4_Witness ==
    /\ pc = "except"
    /\ cycle.n_api = 1
    /\ Failed(prev_cycle)
    /\ prev_cycle.error_send \in DeliveryErrors
    /\ prev_cycle.sleeps = 1

\* the configuration variables that are unset or empty
MissingVariables ==
    {name \in TokenNameSet : env[name] \in {PyNone, PyStr(<< >>)}}

\* C5: check_tokens raises TokenError exactly when a variable is missing,
\* and both the error and the critical log name exactly the missing ones
C5_TokensNamedExactly ==
    pc # "main"
    => /\ (exception.exc = "TokenError") <=> (MissingVariables # {})
       /\ exception.exc = "TokenError"
          => /\ Range(exception.args) \cap TokenNameSet = MissingVariables
             /\ Cardinality(
                   {i \in 1..Len(exception.args) :
                       exception.args[i] \in TokenNameSet})
                = Cardinality(MissingVariables)
       /\ Range(critical) = MissingVariables
       /\ Len(critical) = Cardinality(MissingVariables)

C5_Witness ==
    /\ pc = "terminated"
    /\ env["PRACTICUM_TOKEN"] = PyStr(<<"secret">>)
    /\ env["TELEGRAM_TOKEN"] = PyStr(<< >>)
    /\ env["TELEGRAM_CHAT_ID"] = PyNone

\* C6: with a missing variable main() ends with TokenError before the
\* loop: no API call, no message, no sleep; and TokenError is never raised
\* once the loop has started
C6_ConfigurationFailureIsFatal ==
    /\ MissingVariables # {}
       => /\ pc \in {"main", "terminated"}
          /\ pc = "terminated" => exception.exc = "TokenError"
          /\ cycle = NoCycle /\ prev_cycle = NoCycle
    /\ pc \in {"try", "except", "finally"} => exception.exc # "TokenError"
    /\ exception.exc = "TokenError"
       => pc = "terminated" /\ cycle = NoCycle /\ prev_cycle = NoCycle

C6_Witness ==
    /\ pc = "terminated"
    /\ exception.exc = "TokenError"
    /\ Cardinality(MissingVariables) = 1

\* C7: an iteration that delivered the status message of a response
\* without current_date leaves the cursor as it was, and the next API call
\* has the same from_date
C7_CursorRetention ==
    /\ (pc = "finally" /\ cycle.status_send = "ok"
           /\ ~cycle.has_current_date)
       => timestamp = cycle.timestamp_before
    /\ (prev_cycle.status_send = "ok" /\ ~prev_cycle.has_current_date)
       => /\ pc = "try" => timestamp = prev_cycle.timestamp_before
          /\ cycle.n_api = 1 => cycle.from_date = prev_cycle.from_date

C7_Witness ==
    /\ prev_cycle.status_send = "ok"
    /\ ~prev_cycle.has_current_date
    /\ cycle.n_api = 1

\* C8: check_response raises TypeError for a non-mapping, KeyError for a
\* mapping without 'homeworks', TypeError for a 'homeworks' that is not a
\* list (null included), and returns the list unchanged otherwise
C8_CheckResponseClassifies ==
    (Len(cycle.events) >= 2 /\ cycle.events[2] = "check_response")
    => LET resp == cycle.response
           RaisedHere(exc) == /\ cycle.raised_by = "check_response"
                              /\ cycle.error.exc = exc
       IN  IF resp.type # "dict" THEN RaisedHere("TypeError")
           ELSE IF "homeworks" \notin DOMAIN resp.value
           THEN RaisedHere("KeyError")
           ELSE IF resp.value.homeworks.type # "list"
           THEN RaisedHere("TypeError")
           ELSE /\ cycle.raised_by # "check_response"
                /\ cycle.homeworks = resp.value.homeworks

\* the first record of the list check_response returned
FirstRecord == cycle.homeworks.items[1]

ParseStatusCalled == "parse_status" \in Range(cycle.events)

\* C9: for a record with both keys and a status of the verdict table,
\* parse_status raises nothing and returns the message made of the
\* homework name and the verdict of that status
C9_ParseStatusTotal ==
    (/\ ParseStatusCalled
     /\ DOMAIN FirstRecord = {"homework_name", "status"}
     /\ FirstRecord.status \in {"approved", "reviewing", "rejected"})
    => /\ cycle.raised_by # "parse_status"
       /\ cycle.message =
             PyStr(<<"Izmenilsya status proverki raboty \"",
                     FirstRecord.homework_name, "\". ",
                     HOMEWORK_VERDICTS[FirstRecord.status]>>)
       /\ FirstRecord.homework_name \in Range(cycle.message.value)

C9_Witness ==
    /\ ParseStatusCalled
    /\ FirstRecord = [homework_name |-> "hw2", status |-> "reviewing"]
    /\ cycle.status_send = "ok"

\* C10: parse_status raises KeyError about homework_name when that key is
\* absent, else KeyError about status when that key is absent, else
\* ValueError when the status is not in the verdict table; no message is
\* returned in these cases
C10_ParseStatusErrors ==
    ParseStatusCalled
    => LET RaisedHere(exc, args) ==
               /\ cycle.raised_by = "parse_status"
               /\ cycle.error = [exc |-> exc, args |-> args]
               /\ cycle.message = PyStr(<< >>)
               /\ cycle.status_send = "None"
       IN  IF "homework_name" \notin DOMAIN FirstRecord
           THEN RaisedHere("KeyError",
                    <<"Klyuch \"homework_name\" otsutstvuet v informacii o domashnej rabote">>)
           ELSE IF "status" \notin DOMAIN FirstRecord
           THEN RaisedHere("KeyError",
                    <<"Klyuch \"status\" otsutstvuet v informacii o domashnej rabote">>)
           ELSE FirstRecord.status \notin {"approved", "reviewing", "rejected"}
                => RaisedHere("ValueError",
                       <<"Neizvestnyj status raboty: ", FirstRecord.status>>)

C10_Witness ==
    /\ ParseStatusCalled
    /\ FirstRecord = << >>
    /\ cycle.raised_by = "parse_status"
    /\ pc = "finally"

\* the iteration is past its try block
InIteration == pc \in {"except", "finally"}

\* C12: every iteration sleeps RETRY_PERIOD exactly once, after its
\* processing and before the next API call
C12_OneSleepPerIteration ==
    /\ InIteration => cycle.n_api = 1 /\ cycle.sleeps = 0
    /\ pc = "try" => cycle.n_api = 0
    /\ prev_cycle # NoCycle
       => /\ prev_cycle.n_api = 1
          /\ prev_cycle.sleeps = 1
          /\ prev_cycle.slept = 600

C12_Witness ==
    /\ InIteration
    /\ Failed(prev_cycle)
    /\ prev_cycle.sleeps = 1
    /\ cycle.status_send = "ApiException"

\* C13: an iteration whose status message was not delivered (the API call,
\* the validation or the parsing failed, the list was empty, or the
\* delivery failed) leaves the cursor as it was
C13_CursorOnlyAfterDelivery ==
    /\ (InIteration /\ cycle.status_send # "ok")
       => timestamp = cycle.timestamp_before
    /\ (pc = "try" /\ prev_cycle.n_api = 1 /\ prev_cycle.status_send # "ok")
       => timestamp = prev_cycle.timestamp_before
    /\ (cycle.n_api = 1 /\ prev_cycle.n_api = 1
          /\ prev_cycle.status_send # "ok")
       => cycle.from_date = prev_cycle.from_date

C13_Witness ==
    /\ pc = "try"
    /\ prev_cycle.status_send = "ApiException"
    /\ prev_cycle.has_current_date
    /\ prev_cycle.current_date # prev_cycle.timestamp_before

\* how often 'e' occurs in the events of the running iteration
Count(e) == Cardinality({i \in 1..Len(cycle.events) : cycle.events[i] = e})

\* check_response returned a list of at least one record
HasRecords ==
    /\ InIteration
    /\ cycle.homeworks.type = "list"
    /\ Len(cycle.homeworks.items) >= 1

\* C14: of a list of k >= 1 records only record 0 counts: what the
\* iteration raises and sends is what it raises and sends for the list of
\* record 0 alone, and at most one status message is attempted
C14_OnlyFirstRecord ==
    HasRecords
    => LET p == parse_status(cycle.homeworks.items[1])
       IN  /\ Count("parse_status") = 1
           /\ Count("send_message") <= 1
           /\ IF p.raised # NoException
              THEN /\ cycle.raised_by = "parse_status"
                   /\ cycle.error = p.raised
                   /\ cycle.status_send = "None"
              ELSE /\ cycle.raised_by = "None"
                   /\ cycle.message = p.value
                   /\ cycle.status_send # "None"

C14_Witness ==
    /\ HasRecords
    /\ cycle.homeworks.items =
          <<[homework_name |-> "hw1", status |-> "approved"], << >> >>
    /\ cycle.status_send = "ok"

\* C15: an iteration whose response is valid with an empty 'homeworks'
\* list sends nothing and leaves the cursor and the last-error cache alone
C15_EmptyPollNoOp ==
    (InIteration /\ cycle.homeworks = PyList(<< >>))
    => /\ pc = "finally"
       /\ cycle.events = <<"get_api_answer", "check_response">>
       /\ cycle.status_send = "None"
       /\ cycle.error_send = "None"
       /\ timestamp = cycle.timestamp_before
       /\ last_error_message = cycle.last_error_before
       /\ exception = NoException

C15_Witness ==
    /\ pc = "finally"
    /\ cycle.homeworks = PyList(<< >>)
    /\ cycle.response =
          PyDict([homeworks |-> PyList(<< >>), current_date |-> 1000])
    /\ cycle.timestamp_before = 500

\* C17: an error notification that was not delivered leaves the cache as
\* it was, and the same error in the next iteration is notified again
C17_CacheOnlyOnDelivery ==
    /\ (pc = "finally" /\ Failed(cycle)
          /\ cycle.error_send \in DeliveryErrors)
       => last_error_message = cycle.last_error_before
    /\ (pc = "finally" /\ Failed(cycle) /\ Failed(prev_cycle)
          /\ prev_cycle.error_send \in DeliveryErrors
          /\ cycle.error_message = prev_cycle.error_message)
       => /\ cycle.last_error_before = prev_cycle.last_error_before
          /\ cycle.error_send # "None"

C17_Witness ==
    /\ pc = "finally"
    /\ Failed(cycle) /\ Failed(prev_cycle)
    /\ prev_cycle.error_send = "RequestException"
    /\ cycle.error_message = prev_cycle.error_message
    /\ cycle.error_send = "ok"

\* C18: an iteration makes one get_api_answer call, first of all, and at
\* most one delivery attempt: the status message or the error message
C18_OneCallOneMessage ==
    /\ InIteration
       => /\ Count("get_api_answer") = 1
          /\ cycle.events[1] = "get_api_answer"
          /\ cycle.n_api = 1
          /\ Count("send_message") <= 1
          /\ Count("send_message") =
                IF cycle.status_send # "None" \/ cycle.error_send # "None"
                THEN 1 ELSE 0
    /\ \A c \in {cycle, prev_cycle} :
          c.status_send = "None" \/ c.error_send = "None"

C18_Witness ==
    /\ pc = "finally"
    /\ cycle.events =
          <<"get_api_answer", "check_response", "parse_status", "except",
            "send_message">>
    /\ prev_cycle.status_send = "ok"

\* C11: an iteration that delivered the status message leaves the cache
\* empty, and an error notified before it is, when it occurs again in the
\* iteration after it, notified again
C11_CacheClearedByStatus ==
    /\ (pc = "finally" /\ cycle.status_send = "ok")
       => last_error_message = PyStr(<< >>)
    /\ (pc = "finally" /\ prev_cycle.status_send = "ok" /\ Failed(cycle)
          /\ cycle.error_message = prev_cycle.notified_before)
       => /\ cycle.last_error_before = PyStr(<< >>)
          /\ cycle.error_send # "None"

C11_Witness ==
    /\ pc = "finally"
    /\ prev_cycle.status_send = "ok"
    /\ Failed(cycle)
    /\ cycle.error_message = prev_cycle.notified_before
    /\ cycle.error_send = "ok"

\* C16: of iterations failing with the messages A, A, B (A # B) while the
\* client delivers, the second A is not notified and B is
C16_DifferentErrorAfterSuppressed ==
    (/\ pc = "finally"
     /\ prev_cycle.repeats
     /\ Failed(cycle)
     /\ cycle.error_message # prev_cycle.error_message
     /\ ClientWorked(prev_cycle) /\ ClientWorked(cycle))
    => /\ prev_cycle.error_send = "None"
       /\ cycle.error_send = "ok"

\* C19: the cache is never a status message, and it is '', or what it was
\* when the iteration began, or the error message this iteration delivered
C19_CacheIsDeliveredError ==
    /\ \/ last_error_message = PyStr(<< >>)
       \/ last_error_message.value[1] = "Sboj v rabote programmy: "
    /\ InIteration
       => \/ last_error_message = PyStr(<< >>)
          \/ last_error_message = cycle.last_error_before
          \/ /\ cycle.error_send = "ok"
             /\ last_error_message = cycle.error_message
    /\ (pc = "try" /\ prev_cycle.n_api = 1)
       => \/ last_error_message = PyStr(<< >>)
          \/ last_error_message = prev_cycle.last_error_before
          \/ /\ prev_cycle.error_send = "ok"
             /\ last_error_message = prev_cycle.error_message
    /\ pc = "main" => last_error_message = PyStr(<< >>)

C19_Witness ==
    /\ pc = "try"
    /\ prev_cycle.error_send = "ApiException"
    /\ prev_cycle.sleeps = 1
    /\ last_error_message = PyStr(<< >>)

====
